---- MODULE Spec2Model ----
(***************************************************************************)
(* A model of the ChefByte backend: backend/app.py (the /api/chat,         *)
(* /api/save_recipe and /api/my_recipes handlers, the response normalizer  *)
(* and the reply classification) and backend/database.py (the MongoDB      *)
(* wrapper for conversations and recipes).                                 *)
(*                                                                         *)
(* Python values are records tagged by "kind".  A Python str is a sequence *)
(* of tokens: for request fields a token is one character, for the model's *)
(* reply a token is one lexical token of JSON text (or a bare word).       *)
(***************************************************************************)
EXTENDS Naturals, Sequences, FiniteSets, TLC

VARIABLES
    dbState,        \* app.py db / Database collections: "none", "down", "up"
    apiKey,         \* GEMINI_API_KEY is set
    conversations,  \* the conversations collection: session_id -> history
    served,         \* number of /api/chat requests received so far
    budget,         \* number of /api/chat requests this run may receive
    pc,             \* per worker: position in chat()
    req,            \* per worker: the request body {message, session_id}
    rid,            \* per worker: serial number of the request being handled
    user_message,   \* per worker: chat() local
    session_id,     \* per worker: chat() local
    full_history,   \* per worker: chat() local, the turn list for the provider
    loaded,         \* per worker: what the read behind full_history met in the store
    provider,       \* per worker: "none", "ok", or the failure of the provider
    ai_text,        \* per worker: chat() local
    existing,       \* per worker: chat() local read at persist time
    readOk,         \* per worker: the persist-time read returned a document or None without error
    wrote,          \* per worker: save_conversation returned True for this request
    storeCalls,     \* per worker: Database calls made by this request
    providerCalls,  \* per worker: provider SDK calls made by this request
    missed,         \* per worker: requests whose write landed after this one's persist-time read
    response,       \* per worker: the HTTP response
    carried,        \* request serial -> session_id it resolved to
    recipes,        \* the recipes collection: a set of documents
    clock,          \* datetime.utcnow() as seen by the store, in ticks
    rpc,            \* per recipe worker: position in save_recipe() / get_my_recipes()
    rreq,           \* per recipe worker: the request
    rdoc,           \* per recipe worker: Database.save_recipe local doc
    attempts,       \* per recipe worker: insert_one calls made by this request
    found,          \* per recipe worker: how the find() of this request ended
    rresponse,      \* per recipe worker: the HTTP response
    saves,          \* number of /api/save_recipe requests received so far
    normIn,         \* input of safe_extract_text_from_response
    normOut         \* its result, or NotRun

chatVars == <<dbState, apiKey, conversations, served, budget, pc, req, rid,
              user_message, session_id, full_history, loaded, provider, ai_text,
              existing, readOk, wrote, storeCalls, providerCalls, missed,
              response, carried>>
recipeVars == <<recipes, clock, rpc, rreq, rdoc, attempts, found, rresponse, saves>>
normVars == <<normIn, normOut>>
vars == <<chatVars, recipeVars, normVars>>

-----------------------------------------------------------------------------
(* Python values *)

PyNone == [kind |-> "none"]
PyStr(s) == [kind |-> "str", s |-> s]
PyNum(n) == [kind |-> "num", n |-> n]
PyList(xs) == [kind |-> "list", items |-> xs]
PyDict(m) == [kind |-> "dict", m |-> m]
\* an arbitrary object: its attributes, the attributes whose access raises
\* (a property raising something other than AttributeError), and whether
\* __str__ raises
PyObj(attrs, raising, strRaises) ==
    [kind |-> "obj", attrs |-> attrs, raising |-> raising, strRaises |-> strRaises]
EmptyMap == <<>>
EmptyStr == PyStr(<<>>)

\* an exception leaving an expression, and "nothing returned yet"
Raise == [kind |-> "raise"]
NoResult == [kind |-> "noresult"]

Truthy(x) ==
    CASE x.kind = "none" -> FALSE
      [] x.kind = "str" -> x.s # <<>>
      [] x.kind = "num" -> x.n # 0
      [] x.kind = "list" -> x.items # <<>>
      [] x.kind = "dict" -> DOMAIN x.m # {}
      [] OTHER -> TRUE

\* a or b
PyOr(a, b) == IF a = Raise THEN Raise ELSE IF Truthy(a) THEN a ELSE b

\* hasattr(x, name): only an AttributeError is turned into False
HasAttr(x, name) ==
    IF x.kind = "obj"
    THEN IF name \in x.raising THEN Raise
         ELSE IF name \in DOMAIN x.attrs THEN PyNum(1) ELSE PyNum(0)
    ELSE PyNum(0)

\* getattr(x, name, None)
GetAttr(x, name) ==
    IF x.kind = "obj"
    THEN IF name \in x.raising THEN Raise
         ELSE IF name \in DOMAIN x.attrs THEN x.attrs[name] ELSE PyNone
    ELSE PyNone

\* x.get(key): AttributeError unless x is a dict
DictGet(x, key) ==
    IF x.kind = "dict"
    THEN IF key \in DOMAIN x.m THEN x.m[key] ELSE PyNone
    ELSE Raise

\* x.get(key) if isinstance(x, dict) else None
DictGetOrNone(x, key) == IF x.kind = "dict" THEN DictGet(x, key) ELSE PyNone

\* len(x) > 0, or the TypeError of an object without len()
NonEmptyLen(x) ==
    CASE x.kind = "str" -> PyNum(IF x.s # <<>> THEN 1 ELSE 0)
      [] x.kind = "list" -> PyNum(IF x.items # <<>> THEN 1 ELSE 0)
      [] x.kind = "dict" -> PyNum(IF DOMAIN x.m # {} THEN 1 ELSE 0)
      [] OTHER -> Raise

\* x[0] of a non-empty x
Index0(x) ==
    CASE x.kind = "list" -> x.items[1]
      [] x.kind = "str" -> PyStr(<<x.s[1]>>)
      [] OTHER -> Raise

-----------------------------------------------------------------------------
(* str() and json.dumps() *)

\* the words that occur inside JSON string literals, and the literal of each
Words == {"type", "recipe", "text", "content", "hi", "other",
          "candidates", "output", "message"}
Quote(w) ==
    CASE w = "type" -> "\"type\""
      [] w = "recipe" -> "\"recipe\""
      [] w = "text" -> "\"text\""
      [] w = "content" -> "\"content\""
      [] w = "hi" -> "\"hi\""
      [] w = "other" -> "\"other\""
      [] w = "candidates" -> "\"candidates\""
      [] w = "output" -> "\"output\""
      [] w = "message" -> "\"message\""
      [] OTHER -> "\"...\""
StrLits == {Quote(w) : w \in Words} \cup {"\"\"", "\"...\""}
\* the str a JSON string literal decodes to
Unquote(tok) ==
    IF tok = "\"\"" THEN <<>>
    ELSE IF \E w \in Words : Quote(w) = tok
         THEN <<CHOOSE w \in Words : Quote(w) = tok>>
         ELSE <<"...">>
\* the JSON string literal of a str
QuoteStr(s) ==
    IF s = <<>> THEN "\"\""
    ELSE IF Len(s) = 1 THEN Quote(s[1]) ELSE "\"...\""

\* dict keys in insertion order
KeyOrder == <<"type", "title", "content", "text", "candidates", "output", "message">>
KeysOf(m) == SelectSeq(KeyOrder, LAMBDA k : k \in DOMAIN m)

RECURSIVE JsonDumps(_)
RECURSIVE DumpItems(_, _)
RECURSIVE DumpMembers(_, _, _)
\* json.dumps(v): the JSON text as a str, or the TypeError of an object
\* that is not JSON serializable
JsonDumps(v) ==
    CASE v.kind = "none" -> PyStr(<<"null">>)
      [] v.kind = "num" -> PyStr(<<"1">>)
      [] v.kind = "str" -> PyStr(<<QuoteStr(v.s)>>)
      [] v.kind = "list" ->
            LET body == DumpItems(v.items, 1)
            IN  IF body = Raise THEN Raise ELSE PyStr(<<"[">> \o body.s \o <<"]">>)
      [] v.kind = "dict" ->
            LET body == DumpMembers(v.m, KeysOf(v.m), 1)
            IN  IF body = Raise THEN Raise ELSE PyStr(<<"{">> \o body.s \o <<"}">>)
      [] OTHER -> Raise
DumpItems(items, i) ==
    IF i > Len(items) THEN EmptyStr
    ELSE LET head == JsonDumps(items[i])
             rest == DumpItems(items, i + 1)
         IN  IF head = Raise \/ rest = Raise THEN Raise
             ELSE PyStr(head.s \o (IF i < Len(items) THEN <<",">> ELSE <<>>) \o rest.s)
DumpMembers(m, keys, i) ==
    IF i > Len(keys) THEN EmptyStr
    ELSE LET head == JsonDumps(m[keys[i]])
             rest == DumpMembers(m, keys, i + 1)
         IN  IF head = Raise \/ rest = Raise THEN Raise
             ELSE PyStr(<<Quote(keys[i]), ":">> \o head.s
                        \o (IF i < Len(keys) THEN <<",">> ELSE <<>>) \o rest.s)

\* str(v) for a v that is neither dict nor list
PyStrOf(v) ==
    CASE v.kind = "none" -> PyStr(<<"None">>)
      [] v.kind = "str" -> v
      [] v.kind = "num" -> PyStr(<<"1">>)
      [] v.kind = "obj" -> IF v.strRaises THEN Raise ELSE PyStr(<<"<object>">>)
      [] OTHER -> Raise

-----------------------------------------------------------------------------
(* safe_extract_text_from_response *)

\* the exception is not caught and leaves the function
Propagate(x) == x
\* except Exception: pass -- the strategy yields nothing
Swallow(x) == IF x = Raise THEN NoResult ELSE x

\* hasattr(resp, "text") and resp.text is not None
DirectText(resp) ==
    LET h == HasAttr(resp, "text")
    IN  IF h = Raise THEN Raise
        ELSE IF h.n = 1 /\ resp.attrs["text"] # PyNone
             THEN resp.attrs["text"] ELSE NoResult

\* getattr(x, "text", None) or (x.get("text") if isinstance(x, dict) else None)
TextOrNone(x) == PyOr(GetAttr(x, "text"), DictGetOrNone(x, "text"))

\* a truthy text is returned, anything else falls through
ReturnIfTruthy(t) == IF t = Raise THEN Raise ELSE IF Truthy(t) THEN t ELSE NoResult

\* cont and isinstance(cont, (list, tuple)) and len(cont) > 0
ListLike(cont) == Truthy(cont) /\ cont.kind = "list"

PieceText(piece) ==
    IF piece.kind = "dict"
    THEN LET cont == DictGet(piece, "content")
         IN  IF ListLike(cont) THEN ReturnIfTruthy(DictGet(cont.items[1], "text"))
             ELSE NoResult
    ELSE LET cont == GetAttr(piece, "content")
         IN  IF cont = Raise THEN Raise
             ELSE IF ListLike(cont) THEN ReturnIfTruthy(TextOrNone(cont.items[1]))
             ELSE NoResult

OutText(out) ==
    IF ~Truthy(out) THEN NoResult
    ELSE IF out.kind = "list" THEN PieceText(out.items[1])
    ELSE ReturnIfTruthy(TextOrNone(out))

FirstOut(first) ==
    IF first.kind = "dict"
    THEN PyOr(PyOr(DictGet(first, "output"), DictGet(first, "message")), PyNone)
    ELSE PyOr(GetAttr(first, "output"), GetAttr(first, "message"))

Candidates(resp) == PyOr(GetAttr(resp, "candidates"), DictGetOrNone(resp, "candidates"))

CandidatesText(resp) ==
    LET cands == Candidates(resp)
    IN  IF cands = Raise THEN Raise
        ELSE IF ~Truthy(cands) THEN NoResult
        ELSE IF NonEmptyLen(cands) = Raise THEN Raise
        ELSE LET first == Index0(cands)
             IN  IF first = Raise THEN Raise
                 ELSE LET out == FirstOut(first)
                      IN  IF out = Raise THEN Raise ELSE OutText(out)

\* json.dumps(resp) or str(resp); "" when that raises
StringFallback(resp) ==
    LET s == IF resp.kind \in {"dict", "list"} THEN JsonDumps(resp) ELSE PyStrOf(resp)
    IN  IF s = Raise THEN EmptyStr ELSE s

safe_extract_text_from_response(resp) ==
    LET direct == Swallow(DirectText(resp))
    IN  IF direct # NoResult THEN direct
        ELSE LET nested == Swallow(CandidatesText(resp))
             IN  IF nested # NoResult THEN nested ELSE StringFallback(resp)

-----------------------------------------------------------------------------
(* Inputs of the normalizer: response shapes of the SDK versions the       *)
(* function probes for, well formed and malformed                          *)

Obj(attrs) == PyObj(attrs, {}, FALSE)
LeafTexts == {PyNone, EmptyStr, PyStr(<<"hi">>)}
Cont0s == {PyDict("text" :> t) : t \in LeafTexts}
          \cup {Obj("text" :> t) : t \in LeafTexts}
          \cup {PyDict(EmptyMap), PyStr(<<"hi">>)}
Conts == {PyList(<<c>>) : c \in Cont0s} \cup {PyNone, PyList(<<>>), PyStr(<<"hi">>)}
Pieces == {PyDict("content" :> c) : c \in Conts}
          \cup {Obj("content" :> c) : c \in Conts}
          \cup {PyDict(EmptyMap), PyNone}
Outs == {PyList(<<p>>) : p \in Pieces}
        \cup {PyDict("text" :> t) : t \in LeafTexts}
        \cup {Obj("text" :> t) : t \in LeafTexts}
        \cup {PyNone, PyList(<<>>), PyStr(<<"hi">>)}
Firsts == {PyDict("output" :> o) : o \in Outs}
          \cup {PyDict("message" :> o) : o \in Outs}
          \cup {Obj("output" :> o) : o \in Outs}
          \cup {Obj("message" :> o) : o \in Outs}
          \cup {PyNone}
CandLists == {PyList(<<f>>) : f \in Firsts}
             \cup {PyNone, PyList(<<>>), PyStr(<<"hi">>), Obj(EmptyMap), PyDict("text" :> EmptyStr)}
\* objects: the text attribute absent, raising, or a leaf; likewise candidates
ObjResponses ==
    {PyObj(a, r, sr) :
        a \in {EmptyMap} \cup {"text" :> t : t \in LeafTexts}
              \cup {"candidates" :> c : c \in CandLists}
              \cup {("text" :> t) @@ ("candidates" :> c) : t \in {PyNone}, c \in CandLists},
        r \in {{}, {"text"}, {"candidates"}},
        sr \in BOOLEAN}
NormResponses ==
    {PyNone, EmptyStr, PyStr(<<"hi">>), PyNum(1), PyList(<<>>), PyDict(EmptyMap),
     PyList(<<Obj(EmptyMap)>>), PyDict("text" :> PyStr(<<"hi">>))}
    \cup {PyDict("candidates" :> c) : c \in CandLists}
    \cup ObjResponses

NotRun == [kind |-> "notrun"]

-----------------------------------------------------------------------------
(* json.loads on the tokens of a str *)

ParseFail == [ok |-> FALSE]
Parsed(v, next) == [ok |-> TRUE, v |-> v, next |-> next]

RECURSIVE ParseValue(_, _)
RECURSIVE ParseElements(_, _, _)
RECURSIVE ParseMembers(_, _, _)
\* the JSON value starting at token i, and the position after it
ParseValue(t, i) ==
    IF i > Len(t) THEN ParseFail
    ELSE CASE t[i] = "null" -> Parsed(PyNone, i + 1)
           [] t[i] = "1" -> Parsed(PyNum(1), i + 1)
           [] t[i] \in StrLits -> Parsed(PyStr(Unquote(t[i])), i + 1)
           [] t[i] = "[" ->
                 IF i + 1 <= Len(t) /\ t[i + 1] = "]"
                 THEN Parsed(PyList(<<>>), i + 2)
                 ELSE ParseElements(t, i + 1, <<>>)
           [] t[i] = "{" ->
                 IF i + 1 <= Len(t) /\ t[i + 1] = "}"
                 THEN Parsed(PyDict(EmptyMap), i + 2)
                 ELSE ParseMembers(t, i + 1, EmptyMap)
           [] OTHER -> ParseFail
ParseElements(t, i, acc) ==
    LET e == ParseValue(t, i)
    IN  IF ~e.ok \/ e.next > Len(t) THEN ParseFail
        ELSE IF t[e.next] = "]" THEN Parsed(PyList(Append(acc, e.v)), e.next + 1)
        ELSE IF t[e.next] = "," THEN ParseElements(t, e.next + 1, Append(acc, e.v))
        ELSE ParseFail
ParseMembers(t, i, acc) ==
    IF i + 1 > Len(t) \/ t[i] \notin StrLits \/ t[i + 1] # ":" THEN ParseFail
    ELSE LET e == ParseValue(t, i + 2)
             key == IF Unquote(t[i]) = <<>> THEN "" ELSE Unquote(t[i])[1]
             \* a repeated key keeps its last value
             m == (key :> e.v) @@ acc
         IN  IF ~e.ok \/ e.next > Len(t) THEN ParseFail
             ELSE IF t[e.next] = "}" THEN Parsed(PyDict(m), e.next + 1)
             ELSE IF t[e.next] = "," THEN ParseMembers(t, e.next + 1, m)
             ELSE ParseFail

\* json.loads(text): the decoded value, or Raise (JSONDecodeError, or the
\* TypeError of a text that is no str)
JsonLoads(text) ==
    IF text.kind # "str" THEN Raise
    ELSE LET e == ParseValue(text.s, 1)
         IN  IF e.ok /\ e.next = Len(text.s) + 1 THEN e.v ELSE Raise

-----------------------------------------------------------------------------
(* app.py helpers *)

RECURSIVE LStrip(_)
LStrip(s) == IF s # <<>> /\ Head(s) = " " THEN LStrip(Tail(s)) ELSE s
RECURSIVE RStrip(_)
RStrip(s) ==
    IF s # <<>> /\ s[Len(s)] = " " THEN RStrip(SubSeq(s, 1, Len(s) - 1)) ELSE s
\* str.strip()
Strip(s) == RStrip(LStrip(s))

\* the value is returned as it is, untrimmed
NoTrim(value) ==
    CASE value.kind = "none" -> <<>>
      [] value.kind = "str" -> value.s
      [] OTHER -> PyStrOf(value).s
\* validate_and_trim_str(value): the characters of the trimmed str
validate_and_trim_str(value) ==
    CASE value.kind = "none" -> <<>>
      [] value.kind = "str" -> Strip(value.s)
      [] OTHER -> Strip(PyStrOf(value).s)

\* str(uuid.uuid4()) of the n-th request: a fresh identifier
UuidNames == <<"u1", "u2", "u3", "u4", "u5">>
Uuid4(n) == <<UuidNames[n]>>

\* HTTP responses: jsonify(body), status
Http(status, body) == [status |-> status, body |-> body]
NoResponse == [status |-> 0]

SystemPrompt == PyStr(<<"You are CookBot, a friendly and knowledgeable cooking assistant. ...">>)
ProviderTurn(role, text) == [role |-> role, parts |-> <<[text |-> text]>>]

\* system turns are replayed like any other turn
HistoryWithSystem(stored) ==
    [i \in 1..Len(stored) |->
        ProviderTurn(IF stored[i].role = "assistant" THEN "model" ELSE stored[i].role,
                     PyStr(validate_and_trim_str(stored[i].content)))]
\* history_for_gemini: stored turns in the provider's shape, system turns skipped
RECURSIVE HistoryForGemini(_)
HistoryForGemini(stored) ==
    IF stored = <<>> THEN <<>>
    ELSE LET m == Head(stored)
         IN  (IF m.role = "system" THEN <<>>
              ELSE <<ProviderTurn(IF m.role = "assistant" THEN "model" ELSE m.role,
                                  PyStr(validate_and_trim_str(m.content)))>>)
             \o HistoryForGemini(Tail(stored))
FullHistory(stored) == <<ProviderTurn("user", SystemPrompt)>> \o HistoryForGemini(stored)

\* the two turns of this exchange; "by" records the request that made them
NewTurnsReversed(message, text, n) ==
    << [role |-> "assistant", content |-> text, by |-> n],
       [role |-> "user", content |-> PyStr(message), by |-> n] >>
NewTurns(message, text, n) ==
    << [role |-> "user", content |-> PyStr(message), by |-> n],
       [role |-> "assistant", content |-> text, by |-> n] >>
\* to_store
ToStore(old, message, text, n) == old \o NewTurns(message, text, n)

-----------------------------------------------------------------------------
(* database.py: conversations *)

\* how a driver call can end: it succeeds, it raises a PyMongoError (caught
\* inside Database), or it raises something Database does not catch
Outcomes == {"ok", "error", "raise"}

\* the new turns are pushed onto the stored history instead of replacing it
UpsertPush(coll, sid, messages) ==
    (sid :> ((IF sid \in DOMAIN coll THEN coll[sid] ELSE <<>>)
             \o SubSeq(messages, Len(messages) - 1, Len(messages)))) @@ coll
\* the filter does not select by session_id: the first document is updated
UpsertAny(coll, sid, messages) ==
    IF DOMAIN coll = {} THEN (sid :> messages) @@ coll
    ELSE LET first == CHOOSE k \in DOMAIN coll : TRUE IN (first :> messages) @@ coll
\* update_one({"session_id": sid}, {"$set": {"history": messages}}, upsert=True)
UpsertHistory(coll, sid, messages) == (sid :> messages) @@ coll

\* find_one({"session_id": sid}): the document's history, [] when absent
\* (chat() reads conv.get("history", []) of the document or of {})
StoredHistory(coll, sid) == IF sid \in DOMAIN coll THEN coll[sid] ELSE <<>>

-----------------------------------------------------------------------------
(* app.py chat(): the reply built from ai_text *)

Apology == PyStr(<<"I received an unexpected response format. Could you rephrase?">>)
Trouble == PyStr(<<"I'm having trouble right now. Please try again in a moment.">>)

\* parsed = json.loads(ai_text) if ai_text else None; None when it raises
ParsedOrNone(text) ==
    IF Truthy(text)
    THEN LET v == JsonLoads(text) IN IF v = Raise THEN PyNone ELSE v
    ELSE PyNone

RecipeReply(text, sid, parsed) ==
    Http(200, [response |-> text, session_id |-> sid, is_recipe |-> TRUE,
               recipe_data |-> parsed])
\* parsed.get("content", ai_text)
TextReply(text, sid, parsed) ==
    Http(200, [response |-> IF "content" \in DOMAIN parsed.m
                            THEN parsed.m["content"] ELSE text,
               session_id |-> sid, is_recipe |-> FALSE])
\* the unknown shape is reported as a server error
UnknownShapeError(sid) ==
    Http(500, [response |-> Apology, session_id |-> sid, is_recipe |-> FALSE])
UnknownShapeReply(sid) ==
    Http(200, [response |-> Apology, session_id |-> sid, is_recipe |-> FALSE])
PlainReply(text, sid) ==
    Http(200, [response |-> text, session_id |-> sid, is_recipe |-> FALSE])
EmptyReply == Http(500, [response |-> Trouble])

ChatReply(text, sid) ==
    LET parsed == ParsedOrNone(text)
    IN  IF parsed.kind = "dict" /\ DictGet(parsed, "type") = PyStr(<<"recipe">>)
        THEN RecipeReply(text, sid, parsed)
        ELSE IF parsed.kind = "dict" /\ DictGet(parsed, "type") = PyStr(<<"text">>)
        THEN TextReply(text, sid, parsed)
        ELSE IF parsed # PyNone THEN UnknownShapeReply(sid)
        ELSE IF Truthy(text) THEN PlainReply(text, sid)
        ELSE EmptyReply

\* the response of each provider failure
ProviderFailure(step, exc, available) ==
    CASE step = "create" /\ exc = "NotFound" ->
            Http(500, [error |-> "Model not available", available_models |-> available])
      [] step = "create" /\ exc = "PermissionDenied" ->
            Http(500, [error |-> "Permission denied for model creation. Check API key and account permissions."])
      [] step = "create" ->
            Http(500, [error |-> "Failed to initialize model. See logs.", available_models |-> available])
      [] step = "start" ->
            Http(500, [error |-> "Failed to start chat session. Check model compatibility and SDK version."])
      [] step = "send" /\ exc = "NotFound" ->
            Http(500, [error |-> "Model cannot process chat with this SDK/account", available_models |-> available])
      [] step = "send" /\ exc = "PermissionDenied" ->
            Http(403, [error |-> "API key permission denied. Please rotate key."])
      [] OTHER ->
            Http(500, [error |-> "Error generating response from model"])
\* the failures answered with try_list_models_safe()'s list
ListsModels(step, exc) ==
    \/ step = "create" /\ exc \in {"NotFound", "Error"}
    \/ step = "send" /\ exc = "NotFound"
\* try_list_models_safe(): the names, or None when listing fails
ModelLists == {PyNone, PyList(<<PyStr(<<"models/gemini-2.5-flash">>)>>)}
Availables(step, exc) == IF ListsModels(step, exc) THEN ModelLists ELSE {PyNone}

ProviderExcs == {"NotFound", "PermissionDenied", "Error"}
ProviderOutcomes == {"ok"} \cup ProviderExcs

\* where chat() continues after a provider step
NextAfterCreate(exc) == IF exc = "ok" THEN "start" ELSE "done"
NextAfterStart(exc) == IF exc = "ok" THEN "send" ELSE "done"
\* the except clause logs and falls through instead of returning
FallThroughAfterSend(exc) == "persist_read"
NextAfterSend(exc) == IF exc = "ok" THEN "persist_read" ELSE "done"

-----------------------------------------------------------------------------
(* app.py chat(): one action per blocking call *)

Workers == {1, 2}
MaxServed == 2

\* request bodies: message and session_id absent, blank, padded or plain
MessageInputs == {PyNone, PyStr(<<" ">>), PyStr(<<"a", " ">>)}
SessionInputs == {PyNone, PyStr(<<" ", "s">>), PyStr(<<"t">>)}

\* what send_message returns: the SDK's response object with a text
SdkResponse(text) == Obj("text" :> PyStr(text))
TextJson == <<"{", "\"type\"", ":", "\"text\"", ",", "\"content\"", ":", "\"hi\"", "}">>
ChatResponses == {SdkResponse(<<>>), SdkResponse(TextJson)}

NoProvider == [step |-> "none", exc |-> "none"]
\* the history the store held when it was read for the provider, and whether
\* the read returned it
NotLoaded == [read |-> FALSE]
Loaded(ok, stored) == [read |-> TRUE, ok |-> ok, stored |-> stored]

\* the outcomes of a Database call: with the collections None every method
\* returns at once
DbOutcomes == IF dbState = "up" THEN Outcomes ELSE {"unavailable"}
\* db.get_conversation(sid) or {} -> .get("history", [])
GetConversation(sid, o) == IF o = "ok" THEN StoredHistory(conversations, sid) ELSE <<>>

Finish(r, resp) ==
    /\ pc' = [pc EXCEPT ![r] = "done"]
    /\ response' = [response EXCEPT ![r] = resp]

\* lines 181-190
Receive(r, Msgs, Sess) ==
    /\ pc[r] \in {"idle", "done"}
    /\ served < budget
    /\ \E m \in Msgs, s \in Sess :
          LET n == served + 1
              message == validate_and_trim_str(m)
              given == validate_and_trim_str(s)
              sid == IF given # <<>> THEN given ELSE Uuid4(n)
          IN  /\ served' = n
              /\ req' = [req EXCEPT ![r] = [message |-> m, session_id |-> s]]
              /\ rid' = [rid EXCEPT ![r] = n]
              /\ carried' = (n :> sid) @@ carried
              /\ user_message' = [user_message EXCEPT ![r] = message]
              /\ session_id' = [session_id EXCEPT ![r] = sid]
              /\ IF message = <<>>
                 THEN Finish(r, Http(400, [error |-> "Message cannot be empty"]))
                 ELSE /\ pc' = [pc EXCEPT ![r] = "load"]
                      /\ response' = [response EXCEPT ![r] = NoResponse]
    /\ full_history' = [full_history EXCEPT ![r] = <<>>]
    /\ loaded' = [loaded EXCEPT ![r] = NotLoaded]
    /\ provider' = [provider EXCEPT ![r] = NoProvider]
    /\ ai_text' = [ai_text EXCEPT ![r] = PyNone]
    /\ existing' = [existing EXCEPT ![r] = <<>>]
    /\ readOk' = [readOk EXCEPT ![r] = FALSE]
    /\ wrote' = [wrote EXCEPT ![r] = FALSE]
    /\ storeCalls' = [storeCalls EXCEPT ![r] = 0]
    /\ providerCalls' = [providerCalls EXCEPT ![r] = 0]
    /\ missed' = [missed EXCEPT ![r] = {}]
    /\ UNCHANGED <<dbState, apiKey, budget, conversations, recipeVars, normVars>>

\* lines 192-220: the stored history is read (an exception leaves it empty),
\* the provider turn list is composed, the API key is checked
LoadHistory(r) ==
    /\ pc[r] = "load"
    /\ IF dbState = "none"
       THEN /\ full_history' = [full_history EXCEPT ![r] = FullHistory(<<>>)]
            /\ loaded' = [loaded EXCEPT ![r] = Loaded(FALSE, <<>>)]
            /\ UNCHANGED storeCalls
       ELSE \E o \in DbOutcomes :
               /\ full_history' = [full_history EXCEPT ![r] =
                                     FullHistory(GetConversation(session_id[r], o))]
               /\ loaded' = [loaded EXCEPT ![r] =
                               Loaded(o = "ok", StoredHistory(conversations, session_id[r]))]
               /\ storeCalls' = [storeCalls EXCEPT ![r] = @ + 1]
    /\ IF apiKey
       THEN pc' = [pc EXCEPT ![r] = "model"] /\ UNCHANGED response
       ELSE Finish(r, Http(500, [error |-> "Server misconfigured: missing GEMINI_API_KEY"]))
    /\ UNCHANGED <<dbState, apiKey, budget, conversations, served, req, rid, carried,
                   user_message, session_id, provider, ai_text, existing, readOk,
                   wrote, providerCalls, missed, recipeVars, normVars>>

\* a provider step that raised: the response, and the models listed for it
Fail(r, step, exc) ==
    /\ \E available \in Availables(step, exc) :
          response' = [response EXCEPT ![r] = ProviderFailure(step, exc, available)]
    /\ providerCalls' = [providerCalls EXCEPT ![r] =
                            @ + (IF ListsModels(step, exc) THEN 2 ELSE 1)]

\* lines 222-236: genai.GenerativeModel(...)
CreateModel(r) ==
    /\ pc[r] = "model"
    /\ \E exc \in ProviderOutcomes :
          /\ pc' = [pc EXCEPT ![r] = NextAfterCreate(exc)]
          /\ provider' = [provider EXCEPT ![r] = [step |-> "create", exc |-> exc]]
          /\ IF exc = "ok"
             THEN /\ providerCalls' = [providerCalls EXCEPT ![r] = @ + 1]
                  /\ UNCHANGED <<response, full_history, loaded>>
             ELSE /\ Fail(r, "create", exc)
                  /\ full_history' = [full_history EXCEPT ![r] = <<>>]
                  /\ loaded' = [loaded EXCEPT ![r] = NotLoaded]
    /\ UNCHANGED <<dbState, apiKey, budget, conversations, served, req, rid, carried,
                   user_message, session_id, ai_text, existing, readOk, wrote,
                   storeCalls, missed, recipeVars, normVars>>

\* lines 238-243: model.start_chat(history=full_history); the list is not
\* used after this call
StartChat(r) ==
    /\ pc[r] = "start"
    /\ \E exc \in ProviderOutcomes :
          /\ pc' = [pc EXCEPT ![r] = NextAfterStart(exc)]
          /\ provider' = [provider EXCEPT ![r] = [step |-> "start", exc |-> exc]]
          /\ IF exc = "ok"
             THEN /\ providerCalls' = [providerCalls EXCEPT ![r] = @ + 1]
                  /\ UNCHANGED response
             ELSE Fail(r, "start", exc)
    /\ full_history' = [full_history EXCEPT ![r] = <<>>]
    /\ loaded' = [loaded EXCEPT ![r] = NotLoaded]
    /\ UNCHANGED <<dbState, apiKey, budget, conversations, served, req, rid, carried,
                   user_message, session_id, ai_text, existing, readOk, wrote,
                   storeCalls, missed, recipeVars, normVars>>

\* lines 245-258: chat_session.send_message(user_message), then the normalizer
SendMessage(r, Responses) ==
    /\ pc[r] = "send"
    /\ \E exc \in ProviderOutcomes :
          /\ pc' = [pc EXCEPT ![r] = NextAfterSend(exc)]
          /\ provider' = [provider EXCEPT ![r] = [step |-> "send", exc |-> exc]]
          /\ IF exc = "ok"
             THEN /\ \E raw \in Responses :
                        ai_text' = [ai_text EXCEPT ![r] =
                                      safe_extract_text_from_response(raw)]
                  /\ providerCalls' = [providerCalls EXCEPT ![r] = @ + 1]
                  /\ UNCHANGED response
             ELSE /\ Fail(r, "send", exc)
                  /\ UNCHANGED ai_text
    /\ UNCHANGED <<dbState, apiKey, budget, conversations, served, req, rid, carried,
                   user_message, session_id, full_history, loaded, existing, readOk,
                   wrote, storeCalls, missed, recipeVars, normVars>>

\* lines 261-268, and 275-298 when nothing is saved: without a db, or when
\* get_conversation raises, chat() goes on to the reply
PersistRead(r) ==
    /\ pc[r] = "persist_read"
    /\ IF dbState = "none"
       THEN /\ Finish(r, ChatReply(ai_text[r], session_id[r]))
            /\ UNCHANGED <<existing, readOk, storeCalls, missed>>
       ELSE \E o \in DbOutcomes :
               /\ storeCalls' = [storeCalls EXCEPT ![r] = @ + 1]
               /\ missed' = [missed EXCEPT ![r] = {}]
               /\ IF o = "raise"
                  THEN /\ Finish(r, ChatReply(ai_text[r], session_id[r]))
                       /\ UNCHANGED <<existing, readOk>>
                  ELSE /\ existing' = [existing EXCEPT ![r] =
                                         GetConversation(session_id[r], o)]
                       /\ readOk' = [readOk EXCEPT ![r] = (o = "ok")]
                       /\ pc' = [pc EXCEPT ![r] = "persist_write"]
                       /\ UNCHANGED response
    /\ UNCHANGED <<dbState, apiKey, budget, conversations, served, req, rid, carried,
                   user_message, session_id, full_history, loaded, provider, ai_text,
                   wrote, providerCalls, recipeVars, normVars>>

\* lines 269-298: to_store is saved (a failure is logged), the reply is built
PersistWrite(r) ==
    /\ pc[r] = "persist_write"
    /\ \E o \in DbOutcomes :
          IF o = "ok"
          THEN /\ conversations' =
                     UpsertHistory(conversations, session_id[r],
                                   ToStore(existing[r], user_message[r], ai_text[r], rid[r]))
               /\ wrote' = [wrote EXCEPT ![r] = TRUE]
               /\ missed' = [w \in Workers |->
                               IF w # r /\ pc[w] = "persist_write"
                                  /\ session_id[w] = session_id[r]
                               THEN missed[w] \cup {rid[r]} ELSE missed[w]]
          ELSE UNCHANGED <<conversations, wrote, missed>>
    /\ storeCalls' = [storeCalls EXCEPT ![r] = @ + 1]
    /\ Finish(r, ChatReply(ai_text[r], session_id[r]))
    /\ UNCHANGED <<dbState, apiKey, budget, served, req, rid, carried, user_message,
                   session_id, full_history, loaded, provider, ai_text, existing,
                   readOk, providerCalls, recipeVars, normVars>>

\* no request has been received
ChatIdle ==
    /\ pc = [r \in Workers |-> "idle"]
    /\ req = [r \in Workers |-> [message |-> PyNone, session_id |-> PyNone]]
    /\ rid = [r \in Workers |-> 0]
    /\ user_message = [r \in Workers |-> <<>>]
    /\ session_id = [r \in Workers |-> <<>>]
    /\ full_history = [r \in Workers |-> <<>>]
    /\ loaded = [r \in Workers |-> NotLoaded]
    /\ provider = [r \in Workers |-> NoProvider]
    /\ ai_text = [r \in Workers |-> PyNone]
    /\ existing = [r \in Workers |-> <<>>]
    /\ readOk = [r \in Workers |-> FALSE]
    /\ wrote = [r \in Workers |-> FALSE]
    /\ storeCalls = [r \in Workers |-> 0]
    /\ providerCalls = [r \in Workers |-> 0]
    /\ missed = [r \in Workers |-> {}]
    /\ response = [r \in Workers |-> NoResponse]
    /\ carried = EmptyMap
    /\ served = 0
\* and the conversations collection is empty
ChatLocalsInit == ChatIdle /\ conversations = EmptyMap

NoRequest == [op |-> "none"]

\* the other handlers are not exercised
RecipesQuiet ==
    /\ recipes = {}
    /\ clock = 0
    /\ rpc = [r \in Workers |-> "idle"]
    /\ rreq = [r \in Workers |-> NoRequest]
    /\ rdoc = [r \in Workers |-> PyNone]
    /\ attempts = [r \in Workers |-> 0]
    /\ found = [r \in Workers |-> "none"]
    /\ rresponse = [r \in Workers |-> NoResponse]
    /\ saves = 0
NormQuiet == normIn = PyNone /\ normOut = NotRun
ChatQuiet == dbState = "up" /\ apiKey = TRUE /\ budget = 0 /\ ChatLocalsInit

Init ==
    /\ dbState \in {"none", "down", "up"}
    /\ apiKey \in BOOLEAN
    /\ budget = MaxServed
    /\ ChatLocalsInit
    /\ RecipesQuiet
    /\ NormQuiet

Next ==
    \E r \in Workers :
        \/ Receive(r, MessageInputs, SessionInputs)
        \/ LoadHistory(r)
        \/ CreateModel(r)
        \/ StartChat(r)
        \/ SendMessage(r, ChatResponses)
        \/ PersistRead(r)
        \/ PersistWrite(r)

Spec == Init /\ [][Next]_vars

-----------------------------------------------------------------------------
(* Claims about /api/chat, checked under Spec *)

\* the stored turns as the store holds them: role and content
Plain(turns) == [i \in 1..Len(turns) |-> [role |-> turns[i].role, content |-> turns[i].content]]
\* worker r takes the step in which its save_conversation succeeds
Saves(r) == pc[r] = "persist_write" /\ wrote'[r]
Answered(r, status) == pc[r] = "done" /\ response[r].status = status
Blank(m) == m.kind = "none" \/ (m.kind = "str" /\ \A i \in 1..Len(m.s) : m.s[i] = " ")

\* C1 (as stated): after a request whose provider call and store operations
\* succeed, the stored document is the history read at persist time, then a
\* user turn carrying the request's message, then an assistant turn carrying
\* the normalized response string.
C1_StoresRequestMessage ==
    [][\A r \in Workers :
          (Saves(r) /\ readOk[r]) =>
             Plain(conversations'[session_id[r]]) =
                Plain(existing[r]) \o << [role |-> "user", content |-> req[r].message],
                                         [role |-> "assistant", content |-> ai_text[r]] >>]_vars

\* C1 (amended): the same, the user turn carrying the request's message with
\* leading and trailing whitespace stripped.
C1_StoresTrimmedMessage ==
    [][\A r \in Workers :
          (Saves(r) /\ readOk[r]) =>
             Plain(conversations'[session_id[r]]) =
                Plain(existing[r]) \o << [role |-> "user", content |-> PyStr(Strip(req[r].message.s))],
                                         [role |-> "assistant", content |-> ai_text[r]] >>]_vars

\* a request with a padded message answered with the extracted text "hi" has
\* appended its turns, the raw JSON text among them, to a stored history
C1_Witness ==
    \E r \in Workers :
        /\ Answered(r, 200) /\ wrote[r] /\ readOk[r]
        /\ existing[r] # <<>>
        /\ req[r].message = PyStr(<<"a", " ">>)
        /\ ai_text[r] = PyStr(TextJson)
        /\ response[r].body.response = PyStr(<<"hi">>)
        /\ Len(conversations[session_id[r]]) = Len(existing[r]) + 2

\* C2: requests for one session are not synchronized: a save that follows
\* another request's save to the same session, made after this request's
\* persist-time read, replaces the document, and no turn of that other
\* request is left in it.
C2_LaterUpsertWins ==
    [][\A r \in Workers :
          Saves(r) =>
             \A i \in 1..Len(conversations'[session_id[r]]) :
                conversations'[session_id[r]][i].by \notin missed[r]]_vars

\* both requests were answered 200 and saved, and the stored history has no
\* turn of the earlier one
C2_LostUpdate ==
    \E r1, r2 \in Workers :
        /\ r1 # r2
        /\ Answered(r1, 200) /\ Answered(r2, 200)
        /\ wrote[r1] /\ wrote[r2]
        /\ session_id[r1] = session_id[r2]
        /\ rid[r1] \in missed[r2]
        /\ \A i \in 1..Len(conversations[session_id[r2]]) :
              conversations[session_id[r2]][i].by # rid[r1]

\* C3: a request whose provider invocation failed makes no write to the
\* store: it has made no Database call but the read of the history for the
\* provider, and save_conversation has not succeeded for it.
C3_NoWriteAfterProviderFailure ==
    \A r \in Workers :
        provider[r].exc \in ProviderExcs =>
            /\ pc[r] = "done"
            /\ ~wrote[r]
            /\ storeCalls[r] <= 1

\* send_message was denied for a request on a session that has a stored history
C3_Witness ==
    \E r \in Workers :
        /\ Answered(r, 403)
        /\ provider[r] = [step |-> "send", exc |-> "PermissionDenied"]
        /\ session_id[r] \in DOMAIN conversations

\* C4: a request whose message is empty or whitespace-only is answered with
\* 400 {"error": "Message cannot be empty"} and makes no store call and no
\* provider call, whatever the session_id and the configuration.
C4_EmptyMessageRejected ==
    \A r \in Workers :
        (pc[r] # "idle" /\ Blank(req[r].message)) =>
            /\ pc[r] = "done"
            /\ response[r] = Http(400, [error |-> "Message cannot be empty"])
            /\ storeCalls[r] = 0
            /\ providerCalls[r] = 0

\* a whitespace-only message with a session_id was rejected while the store
\* is up and holds that session
C4_Witness ==
    \E r \in Workers :
        /\ Answered(r, 400)
        /\ req[r].message = PyStr(<<" ">>)
        /\ dbState = "up" /\ apiKey
        /\ session_id[r] \in DOMAIN conversations

\* C9: a request never changes the document of a session other than the one
\* it carries, and every stored turn was written by a request that carried
\* the session_id it is stored under.
C9_NoCrossContamination ==
    [][\A s \in DOMAIN conversations' :
          /\ \A i \in 1..Len(conversations'[s]) : carried'[conversations'[s][i].by] = s
          /\ (s \notin DOMAIN conversations \/ conversations'[s] # conversations[s]) =>
                \E r \in Workers : Saves(r) /\ session_id[r] = s]_vars

\* two sessions hold a history each, written by requests running together
C9_Witness ==
    \E r1, r2 \in Workers :
        /\ session_id[r1] # session_id[r2]
        /\ wrote[r1] /\ pc[r1] = "done"
        /\ pc[r2] = "done" /\ wrote[r2]
        /\ missed[r1] = {} /\ missed[r2] = {}
        /\ conversations[session_id[r1]] # conversations[session_id[r2]]

\* C11: a request that failed because the provider denied permission, at
\* model creation or at message send, is answered with 403; every other
\* provider failure is answered with 500.
C11_PermissionDeniedIs403 ==
    \A r \in Workers :
        (pc[r] = "done" /\ provider[r].exc \in ProviderExcs) =>
            IF provider[r].exc = "PermissionDenied"
            THEN provider[r].step \in {"create", "send"} => response[r].status = 403
            ELSE response[r].status = 500

-----------------------------------------------------------------------------
(* One /api/chat request and every reply text of the provider up to a      *)
(* length                                                                  *)

MaxTokens == 3
JsonTokens == {"{", "}", "[", "]", ":", ",", "null", "1", "hi",
               "\"type\"", "\"recipe\"", "\"text\"", "\"content\"", "\"hi\""}
ShortTexts == UNION {[1..n -> JsonTokens] : n \in 0..MaxTokens}
\* objects of one and of two members
MemberKeys == {"\"type\"", "\"content\"", "\"hi\""}
MemberValues == {"\"recipe\"", "\"text\"", "\"hi\"", "null", "1"}
OneMemberTexts == {<<"{", k, ":", v, "}">> : k \in MemberKeys, v \in MemberValues}
TwoMemberTexts ==
    {<<"{", k1, ":", v1, ",", k2, ":", v2, "}">> :
        k1 \in MemberKeys, v1 \in MemberValues, k2 \in MemberKeys, v2 \in MemberValues}
ReplyTexts == ShortTexts \cup OneMemberTexts \cup TwoMemberTexts
ReplyResponses == {SdkResponse(t) : t \in ReplyTexts}

InitReply ==
    /\ dbState \in {"none", "down", "up"}
    /\ apiKey \in BOOLEAN
    /\ budget = 1
    /\ ChatLocalsInit
    /\ RecipesQuiet
    /\ NormQuiet

NextReply ==
    \E r \in {1} :
        \/ Receive(r, {PyStr(<<"a">>)}, {PyStr(<<"s">>)})
        \/ LoadHistory(r)
        \/ CreateModel(r)
        \/ StartChat(r)
        \/ SendMessage(r, ReplyResponses)
        \/ PersistRead(r)
        \/ PersistWrite(r)

SpecReply == InitReply /\ [][NextReply]_vars

ProviderReturned(r) == pc[r] = "done" /\ provider[r] = [step |-> "send", exc |-> "ok"]
ProviderFailed(r) == provider[r].exc \in ProviderExcs

\* C5 (as stated): a request with a non-empty message, a configured key and
\* a provider call that returns is answered 200 for every normalized string,
\* the empty one included.
C5_AlwaysSuccess ==
    \A r \in Workers : ProviderReturned(r) => response[r].status = 200

\* C5 (amended): such a request is answered 200 for every non-empty
\* normalized string and 500 for the empty one; a request with a non-empty
\* message is otherwise answered with a failure only when the provider
\* invocation failed or the key is missing.
C5_SuccessUnlessEmptyText ==
    \A r \in Workers :
        /\ ProviderReturned(r) =>
              response[r].status = (IF ai_text[r] = EmptyStr THEN 500 ELSE 200)
        /\ (pc[r] = "done" /\ response[r].status # 200) =>
              \/ Blank(req[r].message)
              \/ ~apiKey
              \/ ProviderFailed(r)
              \/ ai_text[r] = EmptyStr

\* a JSON list, valid JSON of no known shape, was answered 200 with the apology
C5_Witness ==
    \E r \in Workers :
        /\ ProviderReturned(r)
        /\ ai_text[r] = PyStr(<<"[", "]">>)
        /\ response[r] = Http(200, [response |-> Apology, session_id |-> session_id[r],
                                    is_recipe |-> FALSE])

\* the reply body the four-way rule gives for a normalized string
FourWayBody(text, sid) ==
    LET v == JsonLoads(text)
    IN  IF v = Raise
        THEN [response |-> text, session_id |-> sid, is_recipe |-> FALSE]
        ELSE IF v.kind = "dict" /\ "type" \in DOMAIN v.m /\ v.m["type"] = PyStr(<<"recipe">>)
        THEN [response |-> text, session_id |-> sid, is_recipe |-> TRUE, recipe_data |-> v]
        ELSE IF v.kind = "dict" /\ "type" \in DOMAIN v.m /\ v.m["type"] = PyStr(<<"text">>)
        THEN [response |-> IF "content" \in DOMAIN v.m THEN v.m["content"] ELSE text,
              session_id |-> sid, is_recipe |-> FALSE]
        ELSE [response |-> Apology, session_id |-> sid, is_recipe |-> FALSE]

\* C6: for a non-empty normalized string the reply is its four-way function:
\* the raw string when it is not JSON, the recipe reply for a mapping of type
\* "recipe", the content for a mapping of type "text", and the apology for
\* every other JSON value, null included.
C6_FourWayRule ==
    \A r \in Workers :
        (ProviderReturned(r) /\ ai_text[r] # EmptyStr) =>
            response[r].body = FourWayBody(ai_text[r], session_id[r])

-----------------------------------------------------------------------------
(* database.py: recipes; app.py save_recipe() and get_my_recipes()         *)

MaxSaves == 2
MaxClock == 1

\* str(uuid.uuid4()): a value of a small pool, so that collisions happen
RecipeIds == {"r1", "r2"}
RecipeSessions == {PyNone, PyStr(<<"s">>), PyStr(<<"t">>)}
Recipe1 == PyDict("title" :> PyStr(<<"hi">>))
RecipeDatas == {PyDict(EmptyMap), Recipe1}

\* find({"session_id": sid})
Matches(doc, sid) == doc.session_id = sid

\* .sort("saved_at", -1): documents with equal saved_at come in any order
SortedDescending(docs) ==
    {f \in [1..Cardinality(docs) -> docs] :
        /\ \A i, j \in 1..Cardinality(docs) : i # j => f[i] # f[j]
        /\ \A i, j \in 1..Cardinality(docs) : i < j => f[i].saved_at >= f[j].saved_at}
\* list(find(...).sort(...))
FindRecipes(coll, sid) == SortedDescending({d \in coll : Matches(d, sid)})

RecipeSaved(id) ==
    Http(200, [success |-> TRUE, recipe_id |-> id, message |-> "Recipe saved successfully!"])
\* str(recipe_id)
IdStr(id) == PyStr(<<id>>)
NoneStr == PyStr(<<"None">>)

\* the handler returns: its locals are gone
RFinish(r, resp) ==
    /\ rpc' = [rpc EXCEPT ![r] = "done"]
    /\ rresponse' = [rresponse EXCEPT ![r] = resp]
    /\ rdoc' = [rdoc EXCEPT ![r] = PyNone]

\* app.py 351-362, database.py 129-143: validation, then the document is built
ReceiveSave(r) ==
    /\ rpc[r] \in {"idle", "done"}
    /\ saves < MaxSaves
    /\ saves' = saves + 1
    /\ \E s \in RecipeSessions, data \in RecipeDatas :
          LET sid == validate_and_trim_str(s)
          IN  /\ rreq' = [rreq EXCEPT ![r] = [op |-> "save", session_id |-> s, recipe_data |-> data]]
              /\ IF sid = <<>> \/ ~Truthy(data)
                 THEN /\ RFinish(r, Http(400, [error |-> "Missing required session_id or recipe_data"]))
                      /\ UNCHANGED clock
                 ELSE IF dbState = "none"
                 THEN /\ RFinish(r, Http(500, [error |-> "Server database unavailable"]))
                      /\ UNCHANGED clock
                 ELSE IF dbState = "down"
                 THEN /\ RFinish(r, RecipeSaved(NoneStr))
                      /\ UNCHANGED clock
                 ELSE \E id \in RecipeIds, now \in {clock, clock + 1} :
                         /\ now <= MaxClock
                         /\ clock' = now
                         /\ rdoc' = [rdoc EXCEPT ![r] =
                                       [recipe_id |-> id, session_id |-> sid,
                                        recipe_data |-> data, saved_at |-> now]]
                         /\ rpc' = [rpc EXCEPT ![r] = "insert"]
                         /\ UNCHANGED rresponse
    /\ attempts' = [attempts EXCEPT ![r] = 0]
    /\ found' = [found EXCEPT ![r] = "none"]
    /\ UNCHANGED <<recipes, chatVars, normVars>>

\* insert_one raises DuplicateKeyError: the unique index on recipe_id
Collides(doc) == \E d \in recipes : d.recipe_id = doc.recipe_id
\* a failed retry is retried again
RetryAgain(collides) == IF collides THEN "retry" ELSE "done"
\* where Database.save_recipe continues after each insert_one
NextAfterInsert(collides) == IF collides THEN "retry" ELSE "done"
NextAfterRetry(collides) == "done"

\* database.py 144-149, 158-160: the first insert_one
Insert(r) ==
    /\ rpc[r] = "insert"
    /\ attempts' = [attempts EXCEPT ![r] = @ + 1]
    /\ IF NextAfterInsert(Collides(rdoc[r])) = "retry"
       THEN \* DuplicateKeyError: a fresh recipe_id for the retry
            /\ \E id \in RecipeIds : rdoc' = [rdoc EXCEPT ![r].recipe_id = id]
            /\ rpc' = [rpc EXCEPT ![r] = "retry"]
            /\ UNCHANGED <<recipes, rresponse>>
       ELSE \E o \in Outcomes :
               /\ recipes' = IF o = "ok" THEN recipes \cup {rdoc[r]} ELSE recipes
               /\ RFinish(r, CASE o = "ok" -> RecipeSaved(IdStr(rdoc[r].recipe_id))
                               [] o = "error" -> RecipeSaved(NoneStr)
                               [] OTHER -> Http(500, [error |-> "Failed to save recipe"]))
    /\ UNCHANGED <<clock, rreq, found, saves, chatVars, normVars>>

\* database.py 150-157: the retry; whatever it raises, None is returned
Retry(r) ==
    /\ rpc[r] = "retry"
    /\ attempts' = [attempts EXCEPT ![r] = @ + 1]
    /\ IF Collides(rdoc[r])
       THEN IF NextAfterRetry(TRUE) = "retry"
            THEN /\ \E id \in RecipeIds : rdoc' = [rdoc EXCEPT ![r].recipe_id = id]
                 /\ UNCHANGED <<rpc, recipes, rresponse>>
            ELSE /\ RFinish(r, RecipeSaved(NoneStr))
                 /\ UNCHANGED recipes
       ELSE \E o \in Outcomes :
               /\ recipes' = IF o = "ok" THEN recipes \cup {rdoc[r]} ELSE recipes
               /\ RFinish(r, IF o = "ok" THEN RecipeSaved(IdStr(rdoc[r].recipe_id))
                             ELSE RecipeSaved(NoneStr))
    /\ UNCHANGED <<clock, rreq, found, saves, chatVars, normVars>>

\* app.py 378-386
ReceiveList(r) ==
    /\ rpc[r] \in {"idle", "done"}
    /\ \E s \in RecipeSessions :
          /\ rreq' = [rreq EXCEPT ![r] = [op |-> "list", session_id |-> s]]
          /\ IF validate_and_trim_str(s) = <<>>
             THEN RFinish(r, Http(400, [error |-> "Session ID required"]))
             ELSE IF dbState = "none"
             THEN RFinish(r, Http(500, [error |-> "Server database unavailable"]))
             ELSE /\ rpc' = [rpc EXCEPT ![r] = "find"]
                  /\ UNCHANGED <<rresponse, rdoc>>
    /\ found' = [found EXCEPT ![r] = "none"]
    /\ attempts' = [attempts EXCEPT ![r] = 0]
    /\ UNCHANGED <<recipes, clock, saves, chatVars, normVars>>

\* app.py 388-394, database.py 167-181: db.get_user_recipes(session_id) or []
Find(r) ==
    /\ rpc[r] = "find"
    /\ \E o \in DbOutcomes :
          /\ found' = [found EXCEPT ![r] = o]
          /\ IF o = "ok"
             THEN \E list \in FindRecipes(recipes, validate_and_trim_str(rreq[r].session_id)) :
                     RFinish(r, Http(200, [recipes |-> list]))
             ELSE IF o = "raise"
             THEN RFinish(r, Http(500, [error |-> "Failed to retrieve recipes"]))
             ELSE RFinish(r, Http(200, [recipes |-> <<>>]))
    /\ UNCHANGED <<recipes, clock, rreq, attempts, saves, chatVars, normVars>>

InitRecipes ==
    /\ dbState \in {"none", "down", "up"}
    /\ apiKey = TRUE
    /\ budget = 0
    /\ ChatLocalsInit
    /\ RecipesQuiet
    /\ NormQuiet

NextRecipes ==
    \E r \in Workers :
        \/ ReceiveSave(r)
        \/ Insert(r)
        \/ Retry(r)
        \/ ReceiveList(r)
        \/ Find(r)

SpecRecipes == InitRecipes /\ [][NextRecipes]_vars

-----------------------------------------------------------------------------
(* Saved recipes                                                           *)

\* the Find step of worker r answers its /my_recipes request
Lists(r) == rpc[r] = "find" /\ rpc'[r] = "done"
\* worker q holds the 200 {success: true} answer of a /save_recipe for sid
SavedFor(q, sid) ==
    /\ rpc[q] = "done"
    /\ rreq[q].op = "save"
    /\ rresponse[q].status = 200
    /\ validate_and_trim_str(rreq[q].session_id) = sid
Descending(list) ==
    \A i, j \in 1..Len(list) : i < j => list[i].saved_at >= list[j].saved_at
ListedIds(list) == {IdStr(list[i].recipe_id) : i \in 1..Len(list)}

\* C7: when the store read succeeds, /my_recipes for session S returns
\* records of S only, every recipe a /save_recipe request for S reported as
\* saved among them, ordered by saved_at descending.
C7_ListsSavedRecipes ==
    [][\A r \in Workers :
          (Lists(r) /\ found'[r] = "ok") =>
              LET sid == validate_and_trim_str(rreq[r].session_id)
                  list == rresponse'[r].body.recipes
              IN  /\ rresponse'[r].status = 200
                  /\ \A i \in 1..Len(list) : list[i].session_id = sid
                  /\ Descending(list)
                  /\ \A q \in Workers :
                        SavedFor(q, sid) => rresponse[q].body.recipe_id \in ListedIds(list)]_vars

\* C8: a /save_recipe with valid fields answers 200 {success: true,
\* recipe_id} only when a record with that recipe_id and session is in the
\* store; with the store unavailable it does not answer 200.
C8_SuccessMeansInserted ==
    \A r \in Workers :
        (rpc[r] = "done" /\ rreq[r].op = "save" /\ rresponse[r].status = 200) =>
            /\ dbState = "up"
            /\ \E d \in recipes :
                  /\ IdStr(d.recipe_id) = rresponse[r].body.recipe_id
                  /\ d.session_id = validate_and_trim_str(rreq[r].session_id)

\* worker r makes its first, its second call of insert_one; the call inserts
FirstInsert(r) == rpc[r] = "insert" /\ attempts'[r] = 1
SecondInsert(r) == rpc[r] = "retry" /\ attempts'[r] = 2
Inserted(r) == recipes' = recipes \cup {rdoc[r]} /\ recipes' # recipes

\* C13: Database.save_recipe makes at most two insert_one calls: the second
\* only after a collision at the first, with a newly generated recipe_id;
\* a failed second call ends the request with None and no further call; a
\* first call that fails without a collision ends the request; a call that
\* failed leaves no record in the store.
C13_AtMostTwoInserts ==
    [][\A r \in Workers :
          /\ attempts'[r] <= 2
          /\ attempts'[r] > attempts[r] => FirstInsert(r) \/ SecondInsert(r)
          /\ FirstInsert(r) =>
                IF Collides(rdoc[r])
                THEN /\ rpc'[r] = "retry"
                     /\ \E id \in RecipeIds : rdoc'[r] = [rdoc[r] EXCEPT !.recipe_id = id]
                     /\ recipes' = recipes
                ELSE /\ rpc'[r] = "done"
                     /\ Inserted(r) \/ recipes' = recipes
                     /\ Inserted(r) <=> rresponse'[r] = RecipeSaved(IdStr(rdoc[r].recipe_id))
          /\ SecondInsert(r) =>
                /\ rpc'[r] = "done"
                /\ Inserted(r) \/ (recipes' = recipes /\ rresponse'[r] = RecipeSaved(NoneStr))
                /\ Collides(rdoc[r]) => ~Inserted(r)
                /\ Inserted(r) <=> rresponse'[r] = RecipeSaved(IdStr(rdoc[r].recipe_id))]_vars

\* the first insert of a request collided with the stored record and its
\* retry failed: it made two calls, returned None and the store holds only
\* the record that was there
C13_Witness ==
    \E r \in Workers :
        /\ rpc[r] = "done" /\ rreq[r].op = "save"
        /\ attempts[r] = 2
        /\ rresponse[r] = RecipeSaved(NoneStr)
        /\ Cardinality(recipes) = 1

-----------------------------------------------------------------------------
(* The normalizer on its own                                               *)

ExtractText ==
    /\ normOut = NotRun
    /\ normOut' = safe_extract_text_from_response(normIn)
    /\ UNCHANGED <<normIn, chatVars, recipeVars>>

InitNorm ==
    /\ normIn \in NormResponses
    /\ normOut = NotRun
    /\ ChatQuiet
    /\ RecipesQuiet

NextNorm == ExtractText

SpecNorm == InitNorm /\ [][NextNorm]_vars

\* no text attribute that can be read and is not None
NoTextField(resp) ==
    \/ resp.kind # "obj"
    \/ "text" \notin DOMAIN resp.attrs
    \/ "text" \in resp.raising
    \/ resp.attrs["text"] = PyNone
\* no candidates, as attribute or as key
NoCandidates(resp) ==
    /\ resp.kind = "obj" => "candidates" \notin DOMAIN resp.attrs
    /\ resp.kind = "dict" => "candidates" \notin DOMAIN resp.m
NothingToExtract(resp) == NoTextField(resp) /\ NoCandidates(resp)

\* C10 as stated: the normalizer never raises, and returns "" whenever the
\* input has no direct text field and no candidates.
C10_EmptyWhenNoText ==
    normOut # NotRun =>
        /\ normOut # Raise
        /\ NothingToExtract(normIn) => normOut = EmptyStr

\* C10: the normalizer never raises and returns a str; for an input with no
\* direct text field and no candidates it returns the input's string form
\* ("None" for None, "{}" for an empty mapping, "[]" for an empty list, the
\* str() of an object) and "" only when that string form is itself empty
\* or cannot be produced.
C10_StringFormWhenNoText ==
    normOut # NotRun =>
        /\ normOut.kind = "str"
        /\ NothingToExtract(normIn) =>
              /\ normIn = PyNone => normOut = PyStr(<<"None">>)
              /\ normIn = PyDict(EmptyMap) => normOut = PyStr(<<"{", "}">>)
              /\ normIn = PyList(<<>>) => normOut = PyStr(<<"[", "]">>)
              /\ normIn.kind = "str" => normOut = normIn
              /\ normIn.kind = "obj" =>
                    normOut = IF normIn.strRaises THEN EmptyStr ELSE PyStr(<<"<object>">>)
              /\ normOut = EmptyStr =>
                    \/ normIn = EmptyStr
                    \/ normIn.kind = "obj" /\ normIn.strRaises
                    \/ normIn = PyList(<<Obj(EmptyMap)>>)

\* an object whose candidates attribute raises and that has no text: the
\* exception is swallowed and the object's str() is returned
C10_Witness ==
    /\ normIn.kind = "obj"
    /\ "candidates" \in normIn.raising
    /\ NoTextField(normIn)
    /\ normOut = PyStr(<<"<object>">>)

-----------------------------------------------------------------------------
(* Sequential /api/chat requests on one session whose document may already *)
(* hold turns of any role                                                  *)

MaxSeed == 2

\* a turn of a stored history that no request of this run wrote
SeedTurn(role, content) == [role |-> role, content |-> PyStr(content), by |-> 0]
SeedTurns ==
    {SeedTurn("system", <<"be brief">>), SeedTurn("user", <<"a">>),
     SeedTurn("assistant", <<"hi", " ">>), SeedTurn("tool", <<"x">>)}
SeedHistories == UNION {[1..n -> SeedTurns] : n \in 0..MaxSeed}
ReplaySession == <<"s">>
\* the provider answers with a text that ends in whitespace
ReplayResponses == {SdkResponse(<<"hi", " ">>)}

InitReplay ==
    /\ dbState \in {"none", "down", "up"}
    /\ apiKey = TRUE
    /\ budget = MaxServed
    /\ ChatIdle
    /\ \E h \in SeedHistories :
          conversations = IF dbState = "up" /\ h # <<>>
                          THEN ReplaySession :> h ELSE EmptyMap
    /\ RecipesQuiet
    /\ NormQuiet

NextReplay ==
    \E r \in {1} :
        \/ Receive(r, {PyStr(<<"a">>)}, {PyStr(ReplaySession)})
        \/ LoadHistory(r)
        \/ CreateModel(r)
        \/ StartChat(r)
        \/ SendMessage(r, ReplayResponses)
        \/ PersistRead(r)
        \/ PersistWrite(r)

SpecReplay == InitReplay /\ [][NextReplay]_vars

\* the turn carrying the system instruction
SystemTurn == [role |-> "user", parts |-> <<[text |-> SystemPrompt]>>]
NotSystem(m) == m.role # "system"
\* stored turns without the system ones, each as a provider turn
AsProviderTurns(stored, Text(_)) ==
    LET kept == SelectSeq(stored, NotSystem)
    IN  [i \in 1..Len(kept) |->
            [role |-> IF kept[i].role = "assistant" THEN "model" ELSE kept[i].role,
             parts |-> <<[text |-> Text(kept[i].content)]>>]]
Verbatim(content) == content
Stripped(content) == PyStr(Strip(content.s))
\* worker r calls start_chat(history=full_history)
Hands(r) == pc[r] = "start" /\ pc'[r] # "start"
\* what the read for the provider returned
Replayable(r) == IF loaded[r].ok THEN loaded[r].stored ELSE <<>>
\* replay leaves the store alone, and a save writes back all it read
KeepsStoredTurns(r) ==
    /\ pc[r] \in {"load", "model", "start"} => conversations' = conversations
    /\ Saves(r) =>
          SubSeq(conversations'[session_id[r]], 1, Len(existing[r])) = existing[r]

\* C12 as stated: the list handed to the provider is the system-instruction
\* turn, then the stored turns in order without the system ones, assistant
\* as model, each content as the single text part; the system turn alone
\* when nothing was read. Stored system turns stay in the store.
C12_ReplaysContentAsStored ==
    [][\A r \in Workers :
          /\ Hands(r) =>
                full_history[r] = <<SystemTurn>> \o AsProviderTurns(Replayable(r), Verbatim)
          /\ KeepsStoredTurns(r)]_vars

\* C12 (amended): the same, each content stripped of leading and trailing
\* whitespace before it is wrapped as the text part.
C12_ReplaysStrippedContent ==
    [][\A r \in Workers :
          /\ Hands(r) =>
                full_history[r] = <<SystemTurn>> \o AsProviderTurns(Replayable(r), Stripped)
          /\ KeepsStoredTurns(r)]_vars

\* the model was created for a request whose session holds a system turn
\* and an assistant turn ending in whitespace: the list to hand over has the
\* instruction and the assistant turn as "model" with the text "hi"
C12_Witness ==
    \E r \in Workers :
        /\ pc[r] = "start"
        /\ loaded[r].read /\ loaded[r].ok
        /\ loaded[r].stored = <<SeedTurn("system", <<"be brief">>),
                                SeedTurn("assistant", <<"hi", " ">>)>>
        /\ full_history[r] = <<SystemTurn, ProviderTurn("model", PyStr(<<"hi">>))>>

IsPrefix(a, b) == Len(a) <= Len(b) /\ SubSeq(b, 1, Len(a)) = a

\* C14: with requests handled one after the other, and any store read or
\* write failing, the history stored for a session before a step is a
\* prefix of the history stored after it: no stored turn is dropped or
\* reordered.
C14_AppendOnly ==
    [][\A s \in DOMAIN conversations :
          /\ s \in DOMAIN conversations'
          /\ IsPrefix(conversations[s], conversations'[s])]_vars

====
